---- MODULE Spec2Model ----
(***************************************************************************)
(* Model of buzz's file transcription pipeline and database helpers:       *)
(* FileTranscriber.run, FileTranscriber.on_download_progress, write_output *)
(* and to_timestamp (src/buzz/transcriber/file_transcriber.py), and        *)
(* copy_transcriptions_from_json_to_sqlite and                             *)
(* mark_in_progress_and_queued_transcriptions_as_canceled                  *)
(* (src/buzz/db/helpers.py).                                               *)
(*                                                                         *)
(* One run of FileTranscriber.run is a sequential process whose position   *)
(* is pc.  Every external call the run makes (title fetch, download,       *)
(* decoder, transcribe, write_output, move, remove) and every signal it    *)
(* emits is appended to log, in program order.                             *)
(***************************************************************************)
EXTENDS Integers, Sequences, FiniteSets, TLC

\* ------------------------------------------------------------------ bounds
\* Longest segment list transcribe() returns.
MaxSegs == 2
\* Most download_progress events one download emits.
MaxHooks == 2

\* ------------------------------------------------------------------ inputs
Sources == {"LOCAL_FILE", "URL_IMPORT", "FOLDER_WATCH"}
OutputFormats == {"TXT", "VTT", "SRT"}

\* Python's None for an optional value: <<>>; a present value v: <<v>>.
None == <<>>
Some(v) == <<v>>

Url == "url"
FetchedTitle == "fetched title"
\* Paths are <<directory, stem, extension>>; Python's None path is <<>>.
TempDir == "tmp"
OutputDir == "out"
InputPath == << "in", "a", ".mp3" >>
\* Names tempfile.mktemp() may return.
TempNames == { << TempDir, "t1", "" >> }

\* Characters str.strip() removes.
Whitespace == {" ", "\n", "\t"}

\* Segment texts the engine may return (strings as sequences of characters).
Texts ==
  { <<>>, <<" ", "a", "\n">>, <<"a", " ", "b">>, <<"\t">> }

\* (start, end) of a segment, in milliseconds.
TimePairs == { <<0, 1000>> }

SegmentValues ==
  { [start |-> p[1], end |-> p[2], text |-> t] : p \in TimePairs, t \in Texts }

RECURSIVE SeqsUpTo(_, _)
SeqsUpTo(S, n) ==
  IF n = 0 THEN { <<>> }
  ELSE LET shorter == SeqsUpTo(S, n - 1)
       IN shorter \cup { Append(q, x) : q \in { r \in shorter : Len(r) = n - 1 }, x \in S }

SegmentLists == SeqsUpTo(SegmentValues, MaxSegs)

\* file_transcription_options.output_formats is a set; the run iterates it
\* in some order, each format once.
FormatLists ==
  { q \in SeqsUpTo(OutputFormats, Cardinality(OutputFormats)) :
      \A i, j \in DOMAIN q : i # j => q[i] # q[j] }

\* Exceptions: msg is the optional `msg` attribute, str is str(exc).
DownloadExcs ==
  { [msg |-> Some("download error msg"), str |-> "ERROR: download error msg"],
    [msg |-> None, str |-> "network unreachable"] }
TitleExcs ==
  { [kind |-> "DownloadError"], [kind |-> "Exception"] }
TranscribeExcs == { [msg |-> None, str |-> "engine failed"] }
ZeroDivisionError == [msg |-> None, str |-> "division by zero"]

\* Data passed to a progress hook.
HookData ==
  [ status : {"downloading", "finished"},
    downloaded_bytes : {None, Some(1)},
    total_bytes : {None, Some(0), Some(2)},
    total_bytes_estimate : {None, Some(0), Some(2)} ]

\* Bytes the decoder wrote to its error stream, and its exit code.
StderrOutputs == { <<>>, <<"x">> }
ExitCodes == {0, 1}

\* ------------------------------------------------------------------- state
VARIABLES
  source,            \* transcription_task.source
  formats,           \* file_transcription_options.output_formats, in iteration order
  file_path,         \* transcription_task.file_path
  title,             \* transcription_task.title
  temp_output_path,  \* local of run: tempfile.mktemp()
  segments,          \* local of run: the list transcribe() returned (mutated in place)
  returned,          \* the list as transcribe() returned it
  idx,               \* position of the output-format loop
  fs,                \* paths that exist on the filesystem
  log,               \* calls made and signals emitted, in order
  pc,                \* position in run
  outcome            \* "running", "returned" (run returned), "raised" (exception left run)

runvars == << source, formats, file_path, title, temp_output_path, segments,
              returned, idx, fs, log, pc, outcome >>

\* A call of one of the module's functions on its own (on_download_progress,
\* write_output, to_timestamp): its arguments, and what it did.
VARIABLES
  call,              \* the function called and its arguments
  result             \* None until the call is made, then what the call did

purevars == << call, result >>

\* The database helpers (src/buzz/db/helpers.py).
VARIABLES
  tasks,             \* TasksCache().load(): the tasks of the legacy cache file
  mig_pc,            \* position in copy_transcriptions_from_json_to_sqlite
  mig_i,             \* position of its loop over tasks
  conn,              \* the tables as the connection sees them (open transaction included)
  disk,              \* the tables as committed
  cache_files,       \* the cache files that exist
  before,            \* the transcription table before the last recovery, else None
  runs               \* migrations started so far

dbvars == << tasks, mig_pc, mig_i, conn, disk, cache_files, before, runs >>

\* Two URL_IMPORT tasks run at the same time, each in its own
\* FileTranscriber, sharing the temporary directory.
VARIABLES
  p_pc,              \* position of each run
  p_temp,            \* temp_output_path of each run
  p_files            \* the temporary files that exist, each with the run whose audio it holds

pairvars == << p_pc, p_temp, p_files >>

vars == << runvars, purevars, dbvars, pairvars >>

InitialPath(src) == IF src = "URL_IMPORT" THEN None ELSE InputPath
InitialTitle(src) == IF src = "URL_IMPORT" THEN "untitled" ELSE "a.mp3"

\* temp_output_path + ".wav"
WavFile(temp) == << temp[1], temp[2], ".wav" >>

\* The download_progress events in a log.
NumProgress(l) == Cardinality({ i \in DOMAIN l : l[i].op = "download_progress" })

\* An entry of the log.
Entry(op, res, arg) == [op |-> op, res |-> res, arg |-> arg, at |-> pc]

\* No function is called on its own.
PureIdle == call = None /\ result = None

\* The database helpers do not run.
DbIdle ==
  /\ tasks = <<>>
  /\ mig_pc = "idle"
  /\ mig_i = 0
  /\ conn = [transcription |-> <<>>, transcription_segment |-> <<>>]
  /\ disk = conn
  /\ cache_files = {}
  /\ before = None
  /\ runs = 0

\* No pair of tasks runs.
PairIdle == p_pc = <<>> /\ p_temp = <<>> /\ p_files = {}

\* No task runs.
RunIdle ==
  /\ source = "LOCAL_FILE"
  /\ formats = <<>>
  /\ file_path = None
  /\ title = ""
  /\ temp_output_path = None
  /\ segments = <<>>
  /\ returned = <<>>
  /\ idx = 0
  /\ fs = {}
  /\ log = <<>>
  /\ pc = "idle"
  /\ outcome = "running"

Init ==
  /\ source \in Sources
  /\ formats \in FormatLists
  /\ file_path = InitialPath(source)
  /\ title = InitialTitle(source)
  /\ temp_output_path = None
  /\ segments = <<>>
  /\ returned = <<>>
  /\ idx = 0
  /\ fs = IF source = "URL_IMPORT" THEN {} ELSE {InputPath}
  /\ log = <<>>
  /\ pc = "start"
  /\ outcome = "running"
  /\ PureIdle
  /\ DbIdle
  /\ PairIdle

\* ---------------------------------------------------------- pure functions
\* Python truthiness of an optional number, and `a or b`.
Truthy(opt) == opt # None /\ opt[1] # 0
PyOr(a, b) == IF Truthy(a) THEN a ELSE b

\* on_download_progress(data): what the hook does with one call.
\*   "none": returns without emitting; "emit": emits download_progress(value),
\*   value the fraction <<downloaded_bytes, total_bytes>>; "raise": the division
\*   raises ZeroDivisionError.
OnDownloadProgress(data) ==
  IF data.status = "downloading"
  THEN LET downloaded_bytes == data.downloaded_bytes
           total_bytes == PyOr(data.total_bytes, data.total_bytes_estimate)
       IN IF downloaded_bytes # None /\ total_bytes # None
          THEN IF total_bytes[1] = 0
               THEN [kind |-> "raise", value |-> None]
               ELSE [kind |-> "emit", value |-> << downloaded_bytes[1], total_bytes[1] >>]
          ELSE [kind |-> "none", value |-> None]
  ELSE [kind |-> "none", value |-> None]

\* getattr(exc, 'msg', str(exc))
ErrorMsg(exc) == IF exc.msg # None THEN exc.msg[1] ELSE exc.str

\* str.strip(): the text without its leading and trailing whitespace.
RECURSIVE LStrip(_)
LStrip(t) ==
  IF t # <<>> /\ Head(t) \in Whitespace THEN LStrip(Tail(t)) ELSE t

RECURSIVE RStrip(_)
RStrip(t) ==
  IF t # <<>> /\ t[Len(t)] \in Whitespace THEN RStrip(SubSeq(t, 1, Len(t) - 1)) ELSE t

\* StripText as str.lstrip(): trailing whitespace is kept.
StripText_LeftOnly(t) == LStrip(t)

StripText(t) == RStrip(LStrip(t))

\* for segment in segments: segment.text = segment.text.strip()
Normalize(segs) ==
  [i \in DOMAIN segs |-> [segs[i] EXCEPT !.text = StripText(segs[i].text)]]

\* ------------------------------------------------------------ run: helpers
Return == pc' = "done" /\ outcome' = "returned"
Raise == pc' = "done" /\ outcome' = "raised"

\* ---------------------------------------------------- run: source resolution
\* Start with the test of line 36 lost: every task runs the URL resolution.
Start_AlwaysResolve ==
  /\ pc = "start"
  /\ \E t \in TempNames : t \notin fs /\ temp_output_path' = t
  /\ pc' = "title"
  /\ UNCHANGED << source, formats, file_path, title, segments, returned, idx,
                  fs, log, outcome >>

\* Line 36: only a URL_IMPORT task resolves its source; mktemp() returns a
\* name that does not exist, without creating it.
Start ==
  /\ pc = "start"
  /\ IF source = "URL_IMPORT"
     THEN /\ \E t \in TempNames : t \notin fs /\ temp_output_path' = t
          /\ pc' = "title"
     ELSE /\ pc' = "transcribe"
          /\ UNCHANGED temp_output_path
  /\ UNCHANGED << source, formats, file_path, title, segments, returned, idx, fs, log, outcome >>

\* Lines 54-58: extract_info returns; the title is info_dict's, or the URL
\* when the dictionary has none.
FetchTitleOk ==
  /\ pc = "title"
  /\ \E t \in {FetchedTitle, Url} : title' = t
  /\ log' = Append(log, Entry("extract_info", "ok", None))
  /\ pc' = "download"
  /\ UNCHANGED << source, formats, file_path, temp_output_path, segments,
                  returned, idx, fs, outcome >>

\* FetchTitleFail treating the failure as fatal: error is emitted, run returns.
FetchTitleFail_Aborts ==
  /\ pc = "title"
  /\ \E exc \in TitleExcs :
       log' = log \o << Entry("extract_info", "raise", exc),
                        Entry("error", "emit", "title fetch failed") >>
  /\ Return
  /\ UNCHANGED << source, formats, file_path, title, temp_output_path,
                  segments, returned, idx, fs >>

\* Lines 59-64: extract_info raises (DownloadError or any other Exception).
FetchTitleFail ==
  /\ pc = "title"
  /\ \E exc \in TitleExcs :
       log' = Append(log, Entry("extract_info", "raise", exc))
  /\ title' = Url
  /\ pc' = "download"
  /\ UNCHANGED << source, formats, file_path, temp_output_path, segments,
                  returned, idx, fs, outcome >>

\* DownloadRaised without the return of line 84: run goes on to the decoder.
DownloadRaised_NoReturn(exc) ==
  /\ log' = log \o << Entry("download", "raise", exc),
                      Entry("error", "emit", ErrorMsg(exc)) >>
  /\ pc' = "decode"
  /\ UNCHANGED << source, formats, file_path, title, temp_output_path,
                  segments, returned, idx, fs, outcome >>

\* Lines 80-84: the handler of an exception raised by download().
DownloadRaised(exc) ==
  /\ log' = log \o << Entry("download", "raise", exc),
                      Entry("error", "emit", ErrorMsg(exc)) >>
  /\ Return
  /\ UNCHANGED << source, formats, file_path, title, temp_output_path,
                  segments, returned, idx, fs >>

\* Lines 68, 158-163: download() calls the progress hook.  A hook that
\* raises ends download() with that exception.
DownloadHook ==
  /\ pc = "download"
  /\ NumProgress(log) < MaxHooks
  /\ \E data \in HookData :
       LET r == OnDownloadProgress(data)
       IN CASE r.kind = "emit" ->
                 /\ log' = Append(log, Entry("download_progress", "emit", r.value))
                 /\ UNCHANGED << source, formats, file_path, title,
                                 temp_output_path, segments, returned, idx,
                                 fs, pc, outcome >>
            [] r.kind = "none" ->
                 UNCHANGED << source, formats, file_path, title,
                              temp_output_path, segments, returned, idx,
                              fs, log, pc, outcome >>
            [] r.kind = "raise" -> DownloadRaised(ZeroDivisionError)

\* Line 79 returns: the audio is at temp_output_path (or under another name
\* the download service chose).
DownloadOk ==
  /\ pc = "download"
  /\ \E at_temp \in BOOLEAN :
       fs' = IF at_temp THEN fs \cup {temp_output_path} ELSE fs
  /\ log' = Append(log, Entry("download", "ok", None))
  /\ pc' = "decode"
  /\ UNCHANGED << source, formats, file_path, title, temp_output_path,
                  segments, returned, idx, outcome >>

\* Lines 77-84: download() raises.
DownloadFail ==
  /\ pc = "download"
  /\ \E exc \in DownloadExcs : DownloadRaised(exc)

\* Lines 86-111, decoder's error stream empty: file_path becomes the WAV.
DecodeOk ==
  /\ pc = "decode"
  /\ \E rc \in ExitCodes :
       /\ log' = Append(log, Entry("ffmpeg", "ok", [stderr |-> <<>>, rc |-> rc]))
       /\ fs' = IF rc = 0 THEN fs \cup {WavFile(temp_output_path)} ELSE fs
  /\ file_path' = WavFile(temp_output_path)
  /\ pc' = "transcribe"
  /\ UNCHANGED << source, formats, title, temp_output_path, segments,
                  returned, idx, outcome >>

\* DecodeFail that only logs the warning of line 107 and goes on.
DecodeFail_WarnOnly ==
  /\ pc = "decode"
  /\ \E rc \in ExitCodes, err \in StderrOutputs \ { <<>> } :
       log' = Append(log, Entry("ffmpeg", "ok", [stderr |-> err, rc |-> rc]))
  /\ file_path' = WavFile(temp_output_path)
  /\ pc' = "transcribe"
  /\ UNCHANGED << source, formats, title, temp_output_path, segments,
                  returned, idx, fs, outcome >>

\* DecodeFail with the assignment of line 110 made before the test of line 106:
\* the exception leaves run with file_path already rewritten.
DecodeFail_RewritesPath ==
  /\ pc = "decode"
  /\ \E rc \in ExitCodes, err \in StderrOutputs \ { <<>> } :
       log' = Append(log, Entry("ffmpeg", "raise", [stderr |-> err, rc |-> rc]))
  /\ file_path' = WavFile(temp_output_path)
  /\ Raise
  /\ UNCHANGED << source, formats, title, temp_output_path,
                  segments, returned, idx, fs >>

\* Lines 106-108: anything on the decoder's error stream raises Exception,
\* which nothing in run catches.
DecodeFail ==
  /\ pc = "decode"
  /\ \E rc \in ExitCodes, err \in StderrOutputs \ { <<>> } :
       log' = Append(log, Entry("ffmpeg", "raise", [stderr |-> err, rc |-> rc]))
  /\ Raise
  /\ UNCHANGED << source, formats, file_path, title, temp_output_path,
                  segments, returned, idx, fs >>

\* -------------------------------------------------- run: transcribe, outputs
\* Moving to position p; reaching the end of run is a normal return.
Goto(p) == pc' = p /\ outcome' = IF p = "done" THEN "returned" ELSE outcome

\* CleanupPc with the source test of line 140 widened to every local input.
CleanupPc_MovesLocal ==
  IF source \in {"FOLDER_WATCH", "LOCAL_FILE"} THEN "move"
  ELSE IF source = "URL_IMPORT" /\ file_path # None /\ file_path[1] = TempDir
       THEN "remove_wav"
       ELSE "done"

\* Lines 140 and 149: the cleanup that follows the output loop.
CleanupPc ==
  IF source = "FOLDER_WATCH" THEN "move"
  ELSE IF source = "URL_IMPORT" /\ file_path # None /\ file_path[1] = TempDir
       THEN "remove_wav"
       ELSE "done"

\* LoopPc ending the loop one format early.
LoopPc_SkipsLast(i) == IF i < Len(formats) THEN "write" ELSE CleanupPc

\* Line 125: the loop's next position once i - 1 formats are written.
LoopPc(i) == IF i <= Len(formats) THEN "write" ELSE CleanupPc

\* Lines 126-134: get_output_file_path(...), from the URL of a URL_IMPORT
\* task and from file_path otherwise.
OutputPath(format) ==
  << OutputDir, IF source = "URL_IMPORT" THEN Url ELSE file_path[2], format >>

\* original_download_path = file_path.rsplit('.', 1)[0]
OriginalDownloadPath(path) == << path[1], path[2], "" >>

\* Line 114 returns the segment list.
TranscribeOk ==
  /\ pc = "transcribe"
  /\ \E segs \in SegmentLists :
       /\ segments' = segs
       /\ returned' = segs
  /\ log' = Append(log, Entry("transcribe", "ok", None))
  /\ pc' = "normalize"
  /\ UNCHANGED << source, formats, file_path, title, temp_output_path, idx, fs, outcome >>

\* TranscribeFail that cleans up after reporting (as a `finally` would).
TranscribeFail_Cleanup ==
  /\ pc = "transcribe"
  /\ \E exc \in TranscribeExcs :
       log' = log \o << Entry("transcribe", "raise", exc),
                        Entry("error", "emit", exc.str) >>
  /\ Goto(CleanupPc)
  /\ UNCHANGED << source, formats, file_path, title, temp_output_path,
                  segments, returned, idx, fs >>

\* Lines 115-118: transcribe() raises; error is emitted and run returns.
TranscribeFail ==
  /\ pc = "transcribe"
  /\ \E exc \in TranscribeExcs :
       log' = log \o << Entry("transcribe", "raise", exc),
                        Entry("error", "emit", exc.str) >>
  /\ Return
  /\ UNCHANGED << source, formats, file_path, title, temp_output_path,
                  segments, returned, idx, fs >>

\* Complete without the emit of line 123.
Complete_NoEmit ==
  /\ pc = "normalize"
  /\ segments' = Normalize(segments)
  /\ idx' = 1
  /\ Goto(LoopPc(1))
  /\ UNCHANGED << source, formats, file_path, title, temp_output_path,
                  returned, fs, log >>

\* Lines 120-123: strip every segment's text, then emit completed.
Complete ==
  /\ pc = "normalize"
  /\ segments' = Normalize(segments)
  /\ log' = Append(log, Entry("completed", "emit", segments'))
  /\ idx' = 1
  /\ Goto(LoopPc(1))
  /\ UNCHANGED << source, formats, file_path, title, temp_output_path,
                  returned, fs >>

\* Lines 125-138: one iteration of the loop, write_output returns.
WriteOk ==
  /\ pc = "write"
  /\ LET format == formats[idx]
         path == OutputPath(format)
     IN /\ log' = Append(log, Entry("write_output", "ok",
                     [path |-> path, segments |-> segments, format |-> format]))
        /\ fs' = fs \cup {path}
  /\ idx' = idx + 1
  /\ Goto(LoopPc(idx + 1))
  /\ UNCHANGED << source, formats, file_path, title, temp_output_path,
                  segments, returned >>

\* WriteFail with the failure caught and reported like the other fatal errors.
WriteFail_EmitsError ==
  /\ pc = "write"
  /\ LET format == formats[idx]
         path == OutputPath(format)
     IN log' = log \o << Entry("write_output", "raise",
                  [path |-> path, segments |-> segments, format |-> format]),
                         Entry("error", "emit", "write failed") >>
  /\ Return
  /\ UNCHANGED << source, formats, file_path, title, temp_output_path,
                  segments, returned, idx, fs >>

\* WriteFail with the failure caught inside the loop: the next format is
\* written and the cleanup follows.
WriteFail_Continues ==
  /\ pc = "write"
  /\ LET format == formats[idx]
         path == OutputPath(format)
     IN log' = Append(log, Entry("write_output", "raise",
                  [path |-> path, segments |-> segments, format |-> format]))
  /\ idx' = idx + 1
  /\ Goto(LoopPc(idx + 1))
  /\ UNCHANGED << source, formats, file_path, title, temp_output_path,
                  segments, returned, fs >>

\* Lines 136-138: write_output raises (a filesystem error); nothing in run
\* catches it.
WriteFail ==
  /\ pc = "write"
  /\ LET format == formats[idx]
         path == OutputPath(format)
     IN log' = Append(log, Entry("write_output", "raise",
                  [path |-> path, segments |-> segments, format |-> format]))
  /\ Raise
  /\ UNCHANGED << source, formats, file_path, title, temp_output_path,
                  segments, returned, idx, fs >>

\* ------------------------------------------------------------ run: cleanup
\* Lines 140-147: the watched-folder input is moved to the output directory.
MoveOk ==
  /\ pc = "move"
  /\ file_path \in fs
  /\ LET dest == << OutputDir, file_path[2], file_path[3] >>
     IN /\ fs' = (fs \ {file_path}) \cup {dest}
        /\ log' = Append(log, Entry("move", "ok", [src |-> file_path, dst |-> dest]))
  /\ Goto("done")
  /\ UNCHANGED << source, formats, file_path, title, temp_output_path,
                  segments, returned, idx >>

\* shutil.move raises; nothing in run catches it.
MoveFail ==
  /\ pc = "move"
  /\ log' = Append(log, Entry("move", "raise", [src |-> file_path, dst |-> None]))
  /\ Raise
  /\ UNCHANGED << source, formats, file_path, title, temp_output_path,
                  segments, returned, idx, fs >>

\* Lines 151-153: os.remove(file_path) returns; the raw download is next
\* when it exists.
RemoveWavOk ==
  /\ pc = "remove_wav"
  /\ file_path \in fs
  /\ fs' = fs \ {file_path}
  /\ log' = Append(log, Entry("remove", "ok", file_path))
  /\ Goto(IF OriginalDownloadPath(file_path) \in fs' THEN "remove_raw" ELSE "done")
  /\ UNCHANGED << source, formats, file_path, title, temp_output_path,
                  segments, returned, idx >>

\* RemoveWavFail without the except clause of line 155: the error leaves run.
RemoveWavFail_Propagates ==
  /\ pc = "remove_wav"
  /\ log' = Append(log, Entry("remove", "raise", file_path))
  /\ Raise
  /\ UNCHANGED << source, formats, file_path, title, temp_output_path,
                  segments, returned, idx, fs >>

\* Lines 151, 155-156: os.remove(file_path) raises OSError, which is logged.
RemoveWavFail ==
  /\ pc = "remove_wav"
  /\ log' = Append(log, Entry("remove", "raise", file_path))
  /\ Goto("done")
  /\ UNCHANGED << source, formats, file_path, title, temp_output_path,
                  segments, returned, idx, fs >>

\* Line 154: os.remove(original_download_path) returns.
RemoveRawOk ==
  /\ pc = "remove_raw"
  /\ fs' = fs \ {OriginalDownloadPath(file_path)}
  /\ log' = Append(log, Entry("remove", "ok", OriginalDownloadPath(file_path)))
  /\ Goto("done")
  /\ UNCHANGED << source, formats, file_path, title, temp_output_path,
                  segments, returned, idx >>

\* Lines 154-156: os.remove(original_download_path) raises OSError, logged.
RemoveRawFail ==
  /\ pc = "remove_raw"
  /\ log' = Append(log, Entry("remove", "raise", OriginalDownloadPath(file_path)))
  /\ Goto("done")
  /\ UNCHANGED << source, formats, file_path, title, temp_output_path,
                  segments, returned, idx, fs >>

\* ------------------------------------------------------------ specification
\* A step of run leaves everything else alone.
RunStep(A) == A /\ UNCHANGED << purevars, dbvars, pairvars >>

Next ==
  \/ RunStep(Start)
  \/ RunStep(FetchTitleOk)
  \/ RunStep(FetchTitleFail)
  \/ RunStep(DownloadHook)
  \/ RunStep(DownloadOk)
  \/ RunStep(DownloadFail)
  \/ RunStep(DecodeOk)
  \/ RunStep(DecodeFail)
  \/ RunStep(TranscribeOk)
  \/ RunStep(TranscribeFail)
  \/ RunStep(Complete)
  \/ RunStep(WriteOk)
  \/ RunStep(WriteFail)
  \/ RunStep(MoveOk)
  \/ RunStep(MoveFail)
  \/ RunStep(RemoveWavOk)
  \/ RunStep(RemoveWavFail)
  \/ RunStep(RemoveRawOk)
  \/ RunStep(RemoveRawFail)

Spec == Init /\ [][Next]_vars

\* ------------------------------------------------------------------ claims
\* Positions of the log's entries of one operation, and of one result.
Idx(op) == { i \in DOMAIN log : log[i].op = op }
IdxRes(op, res) == { i \in Idx(op) : log[i].res = res }
Count(op) == Cardinality(Idx(op))

\* The terminal events emitted so far.
NumTerminal == Count("completed") + Count("error")

\* The decoder calls that wrote to the error stream.
DecodeErrors == { i \in Idx("ffmpeg") : log[i].arg.stderr # <<>> }

\* The files under the output directory.
OutputFiles == { p \in fs : p # None /\ p[1] = OutputDir }

\* C1: when run has ended, exactly one of completed and error has been
\* emitted (never both, never neither).
C1_ExactlyOneTerminal == pc = "done" => NumTerminal = 1

\* C2: in every state of a run at most one terminal event has been emitted:
\* completed and error never both, neither twice, also when an output write
\* or a cleanup step fails after completed.
C2_AtMostOneTerminal == NumTerminal <= 1

\* A write failed after completed was emitted, and the exception left run.
C2_Witness ==
  /\ pc = "done" /\ outcome = "raised"
  /\ Count("completed") = 1
  /\ IdxRes("write_output", "raise") # {}

\* C3: for a URL_IMPORT task whose download failed or whose decoder wrote to
\* its error stream, completed is not emitted, write_output is not called and
\* no output file exists.
C3_UrlFailureShortCircuit ==
  (source = "URL_IMPORT" /\ (IdxRes("download", "raise") # {} \/ DecodeErrors # {}))
    => /\ Count("completed") = 0
       /\ Count("write_output") = 0
       /\ OutputFiles = {}

\* The run of a URL_IMPORT task ended on a decoder that wrote to its error
\* stream.
C3_Witness ==
  /\ source = "URL_IMPORT" /\ pc = "done"
  /\ DecodeErrors # {}

\* C4: when the download of a URL_IMPORT task raises, run emits error with
\* the failure's message (its msg attribute, else its string) and returns:
\* no decoder, no transcribe, no output, no cleanup, file_path unchanged.
C4_DownloadFailureAborts ==
  \A i \in IdxRes("download", "raise") :
    /\ source = "URL_IMPORT"
    /\ Len(log) = i + 1
    /\ log[i + 1].op = "error"
    /\ log[i + 1].arg = (IF log[i].arg.msg # None THEN log[i].arg.msg[1]
                                                 ELSE log[i].arg.str)
    /\ Count("error") = 1
    /\ pc = "done" /\ outcome = "returned"
    /\ Count("ffmpeg") = 0 /\ Count("transcribe") = 0
    /\ Count("write_output") = 0 /\ Count("move") = 0 /\ Count("remove") = 0
    /\ file_path = InitialPath(source)

\* A download raised an exception that carries a msg attribute.
C4_Witness ==
  \E i \in IdxRes("download", "raise") : log[i].arg.msg # None

\* C5: when the decoder of a URL_IMPORT task wrote to its error stream, the
\* run has, once ended, emitted a single error event.
C5_DecodeFailureEmitsError ==
  (pc = "done" /\ DecodeErrors # {}) => Count("error") = 1

\* C6: when transcribe() raises, exactly one error is emitted, with the
\* exception's message, and no completed; write_output is never called and
\* no cleanup is attempted: nothing is moved or removed.
C6_TranscribeFailureReported ==
  \A i \in IdxRes("transcribe", "raise") :
    /\ Len(log) = i + 1
    /\ log[i + 1].op = "error" /\ log[i + 1].arg = log[i].arg.str
    /\ Count("error") = 1 /\ Count("completed") = 0
    /\ Count("write_output") = 0
    /\ Count("move") = 0 /\ Count("remove") = 0
    /\ pc = "done" /\ outcome = "returned"
    /\ source = "FOLDER_WATCH" => (InputPath \in fs /\ OutputFiles = {})
    /\ source = "URL_IMPORT" =>
         \A j \in Idx("ffmpeg") : log[j].arg.rc = 0 => file_path \in fs

\* transcribe() raised for a URL_IMPORT task whose decoded WAV exists.
C6_Witness ==
  /\ IdxRes("transcribe", "raise") # {}
  /\ source = "URL_IMPORT"
  /\ file_path \in fs

\* C7: a failed title fetch of a URL_IMPORT task emits no error and does not
\* end the run: the title is the URL and the download step follows.
C7_TitleFailureTolerated ==
  \A i \in IdxRes("extract_info", "raise") :
    /\ title = Url
    /\ pc # "title"
    /\ i = Len(log) => (pc = "download" /\ outcome = "running")
    /\ i < Len(log) => log[i + 1].op \in {"download_progress", "download"}

\* The title fetch failed and the run went on to complete.
C7_Witness ==
  /\ IdxRes("extract_info", "raise") # {}
  /\ Count("completed") = 1
  /\ pc = "done"

\* C8: completed is emitted right after transcribe() returns, before the
\* first write_output call and before any move or removal; no output file
\* exists before it is emitted.
C8_CompletedBeforeOutputs ==
  /\ \A i \in Idx("completed") :
       i > 1 /\ log[i - 1].op = "transcribe" /\ log[i - 1].res = "ok"
  /\ \A i \in Idx("write_output") \cup Idx("move") \cup Idx("remove") :
       \E j \in Idx("completed") : j < i
  /\ (IdxRes("transcribe", "ok") # {} /\ pc # "normalize") => Count("completed") = 1
  /\ Count("completed") = 0 => OutputFiles = {}

\* Outputs were written and temporary files removed after completed.
C8_Witness ==
  /\ Count("completed") = 1
  /\ IdxRes("write_output", "ok") # {}
  /\ IdxRes("remove", "ok") # {}

\* A text with no leading and no trailing whitespace.
IsStripped(t) ==
  t = <<>> \/ (t[1] \notin Whitespace /\ t[Len(t)] \notin Whitespace)

\* t is orig with only whitespace taken off its two ends.
IsTrimOf(t, orig) ==
  \E lead \in 0 .. Len(orig) :
    /\ lead + Len(t) <= Len(orig)
    /\ \A k \in 1 .. Len(t) : orig[lead + k] = t[k]
    /\ \A k \in 1 .. Len(orig) :
         (k <= lead \/ k > lead + Len(t)) => orig[k] \in Whitespace

\* segs is the list transcribe() returned, in its order, every text stripped.
IsNormalized(segs) ==
  /\ Len(segs) = Len(returned)
  /\ \A k \in DOMAIN segs :
       /\ segs[k].start = returned[k].start
       /\ segs[k].end = returned[k].end
       /\ IsStripped(segs[k].text)
       /\ IsTrimOf(segs[k].text, returned[k].text)

\* C9: the list carried by completed and the list passed to every
\* write_output call hold the segments transcribe() returned, in the same
\* order, each text without leading or trailing whitespace.
C9_SegmentsNormalized ==
  /\ \A i \in Idx("completed") : IsNormalized(log[i].arg)
  /\ \A i \in Idx("write_output") : IsNormalized(log[i].arg.segments)

\* An output was written of a list in which some text had whitespace at both
\* ends and some text was whitespace only.
C9_Witness ==
  /\ IdxRes("write_output", "ok") # {}
  /\ \E k \in DOMAIN returned :
       /\ Len(returned[k].text) > 1
       /\ returned[k].text[1] \in Whitespace
       /\ returned[k].text[Len(returned[k].text)] \in Whitespace
       /\ segments[k].text # <<>>
  /\ \E k \in DOMAIN returned :
       returned[k].text # <<>> /\ segments[k].text = <<>>

\* C10: download_progress is emitted only during the download step of a
\* URL_IMPORT task: never for another source, never once the download has
\* ended, transcribe has been called or a terminal event has been emitted.
C10_ProgressOnlyDuringDownload ==
  \A i \in Idx("download_progress") :
    /\ source = "URL_IMPORT"
    /\ log[i].at = "download"
    /\ \A j \in 1 .. (i - 1) :
         log[j].op \notin {"download", "ffmpeg", "transcribe", "completed", "error"}

\* Progress was reported during a download and the run went on to complete.
C10_Witness ==
  /\ Count("download_progress") = MaxHooks
  /\ Count("completed") = 1
  /\ pc = "done"

\* The write_output calls made so far, in order.
Writes == SelectSeq(log, LAMBDA e : e.op = "write_output")

\* The removals attempted so far, in order.
Removes == SelectSeq(log, LAMBDA e : e.op = "remove")

\* Transcription succeeded and no write_output call failed.
WritesSucceeded ==
  /\ Count("completed") = 1
  /\ IdxRes("write_output", "raise") = {}
  /\ pc \in {"move", "remove_wav", "remove_raw", "done"}

\* C12: the write_output calls follow the requested formats, one call per
\* format in their order; once transcription and every write succeeded there
\* is exactly one call per requested format, each with the normalized list
\* (none with no format requested).
C12_OneWritePerFormat ==
  /\ Len(Writes) <= Len(formats)
  /\ \A k \in DOMAIN Writes : Writes[k].arg.format = formats[k]
  /\ WritesSucceeded =>
       /\ Len(Writes) = Len(formats)
       /\ \A k \in DOMAIN Writes :
            /\ Writes[k].res = "ok"
            /\ Writes[k].arg.segments = segments
            /\ IsNormalized(Writes[k].arg.segments)
            /\ \A i \in Idx("completed") : Writes[k].arg.segments = log[i].arg

\* Every one of three requested formats was written, of a list with a
\* segment whose text was changed by the normalization.
C12_Witness ==
  /\ WritesSucceeded /\ pc = "done"
  /\ Len(formats) = Cardinality(OutputFormats)
  /\ Len(Writes) = Len(formats)
  /\ segments # <<>> /\ segments # returned

\* The place the watched-folder input is moved to.
MovedPath == << OutputDir, InputPath[2], InputPath[3] >>

\* C13: shutil.move is called if and only if the source is FOLDER_WATCH and
\* transcription and every output write succeeded, once, after the last
\* write_output call; when it returns the input is in the output directory,
\* and otherwise the input of a LOCAL_FILE or FOLDER_WATCH task stays.
C13_MoveIffFolderWatchSuccess ==
  /\ \A i \in Idx("move") :
       /\ source = "FOLDER_WATCH"
       /\ Count("move") = 1
       /\ Count("completed") = 1
       /\ IdxRes("write_output", "raise") = {}
       /\ Len(Writes) = Len(formats)
       /\ \A j \in Idx("write_output") : j < i
       /\ log[i].arg.src = InputPath
  /\ (source = "FOLDER_WATCH" /\ WritesSucceeded /\ pc = "done") => Count("move") = 1
  /\ IdxRes("move", "ok") # {} => (InputPath \notin fs /\ MovedPath \in fs)
  /\ (IdxRes("move", "ok") = {} /\ source # "URL_IMPORT") =>
       (InputPath \in fs /\ MovedPath \notin fs)

\* The watched-folder input was moved after two outputs were written.
C13_Witness ==
  /\ IdxRes("move", "ok") # {}
  /\ Len(Writes) > 1
  /\ pc = "done"

\* C14: after a URL_IMPORT run in which transcription and every write
\* succeeded, with file_path under the temporary directory, the decoded WAV
\* is removed first and then the raw download (the WAV path without its
\* extension) when it exists; a removal that raises OSError is logged and
\* run returns normally.
C14_TempFilesRemoved ==
  /\ \A k \in DOMAIN Removes :
       /\ source = "URL_IMPORT" /\ WritesSucceeded
       /\ file_path = WavFile(temp_output_path) /\ file_path[1] = TempDir
       /\ Removes[k].arg = (IF k = 1 THEN file_path ELSE OriginalDownloadPath(file_path))
       /\ k <= 2
       /\ k = 2 => Removes[1].res = "ok"
  /\ (source = "URL_IMPORT" /\ WritesSucceeded /\ pc = "done") =>
       /\ outcome = "returned"
       /\ Len(Removes) >= 1
       /\ Removes[1].res = "ok" =>
            /\ file_path \notin fs
            /\ Len(Removes) = 1 => OriginalDownloadPath(file_path) \notin fs
            /\ (Len(Removes) = 2 /\ Removes[2].res = "ok") =>
                 OriginalDownloadPath(file_path) \notin fs

\* The WAV was removed, the removal of the raw download raised, and run
\* returned.
C14_Witness ==
  /\ pc = "done" /\ outcome = "returned"
  /\ Len(Removes) = 2
  /\ Removes[1].res = "ok" /\ Removes[2].res = "raise"

\* The write_output calls made for a format.
WritesOf(format) == { i \in Idx("write_output") : log[i].arg.format = format }

\* C22: when write_output raises for the k-th requested format, the
\* exception leaves run with completed emitted before it and no error
\* emitted; the formats before k were written and their files exist, no
\* format after k is written, and nothing is moved or removed.
C22_WriteFailurePropagates ==
  \A i \in IdxRes("write_output", "raise") :
    LET k == Count("write_output")
    IN /\ Len(log) = i
       /\ pc = "done" /\ outcome = "raised"
       /\ Count("error") = 0
       /\ \E c \in Idx("completed") : c < i
       /\ k <= Len(formats)
       /\ log[i].arg.format = formats[k]
       /\ \A j \in 1 .. (k - 1) :
            /\ \E w \in IdxRes("write_output", "ok") :
                 log[w].arg.format = formats[j] /\ log[w].arg.path \in fs
       /\ \A j \in (k + 1) .. Len(formats) :
            /\ WritesOf(formats[j]) = {}
            /\ \A q \in OutputFiles : q[3] # formats[j]
       /\ Count("move") = 0 /\ Count("remove") = 0
       /\ source = "FOLDER_WATCH" => InputPath \in fs
       /\ source = "URL_IMPORT" =>
            \A q \in { p \in fs : p[1] = TempDir } :
              q \in { temp_output_path, WavFile(temp_output_path) }

\* The second of three formats failed: the first is written, the third is not.
C22_Witness ==
  /\ Len(formats) = 3
  /\ Count("write_output") = 2
  /\ IdxRes("write_output", "raise") # {}
  /\ Cardinality(OutputFiles) = 1
  /\ pc = "done"

\* The transcribe calls in a log.
NumTranscribe(l) == Cardinality({ i \in DOMAIN l : l[i].op = "transcribe" })

\* A step of run as C23 allows it: file_path changes only from its first
\* value, only for a URL_IMPORT task whose download returned and whose
\* decoder has just ended with an empty error stream, and only to the WAV
\* path; transcribe is called for a URL_IMPORT task only with file_path
\* already the WAV path.
C23_Step ==
  /\ file_path' # file_path =>
       /\ source = "URL_IMPORT"
       /\ file_path = InitialPath(source)
       /\ temp_output_path # None
       /\ file_path' = << temp_output_path[1], temp_output_path[2], ".wav" >>
       /\ IdxRes("download", "ok") # {} /\ IdxRes("download", "raise") = {}
       /\ Len(log') = Len(log) + 1
       /\ log'[Len(log')].op = "ffmpeg"
       /\ log'[Len(log')].res = "ok"
       /\ log'[Len(log')].arg.stderr = <<>>
  /\ (NumTranscribe(log') > NumTranscribe(log) /\ source = "URL_IMPORT") =>
       /\ temp_output_path # None
       /\ file_path = << temp_output_path[1], temp_output_path[2], ".wav" >>
       /\ file_path' = file_path

\* C23: file_path is rewritten at most once in a run, only for a URL_IMPORT
\* task after download and decode succeeded, to the decoded WAV path, and
\* transcribe is not called for such a task before that; for LOCAL_FILE and
\* FOLDER_WATCH tasks and after a failed download or decode file_path is
\* what it was when run started.
C23_FilePathRewrittenOnce ==
  /\ [](pc # "idle" =>
         /\ source # "URL_IMPORT" => file_path = InputPath
         /\ (IdxRes("download", "raise") # {} \/ DecodeErrors # {}) =>
              file_path = InitialPath(source))
  /\ [][C23_Step]_vars

\* A URL_IMPORT task was transcribed from its decoded WAV.
C23_Witness ==
  /\ source = "URL_IMPORT"
  /\ IdxRes("transcribe", "ok") # {}
  /\ temp_output_path # None
  /\ file_path = << temp_output_path[1], temp_output_path[2], ".wav" >>


\* ============================================ on_download_progress, alone
\* Data a download may pass to its progress hook.
HookCalls ==
  [ status : {"downloading", "finished", "error"},
    downloaded_bytes : {None, Some(0), Some(1)},
    total_bytes : {None, Some(0), Some(2)},
    total_bytes_estimate : {None, Some(0), Some(4)} ]

InitHook ==
  /\ call \in [fn : {"on_download_progress"}, data : HookCalls]
  /\ result = None
  /\ RunIdle
  /\ DbIdle
  /\ PairIdle

\* Lines 158-163: the hook is called with call.data.
HookCall ==
  /\ call.fn = "on_download_progress"
  /\ result = None
  /\ result' = OnDownloadProgress(call.data)
  /\ UNCHANGED << call, runvars, dbvars, pairvars >>

NextHook == HookCall

SpecHook == InitHook /\ [][NextHook]_vars

\* The total of a hook call as the claim reads it: the exact total, or the
\* estimate when the exact total is absent.
KnownTotal(data) ==
  IF data.total_bytes # None THEN data.total_bytes ELSE data.total_bytes_estimate

\* C11: a hook call with status 'downloading' whose downloaded_bytes and
\* total (exact, else estimated) are both known emits one download_progress
\* with value downloaded_bytes / total and does not raise, a total of 0
\* included; every other call emits nothing.
C11_HookEmitsFraction ==
  result # None =>
    IF /\ call.data.status = "downloading"
       /\ call.data.downloaded_bytes # None
       /\ KnownTotal(call.data) # None
    THEN /\ result.kind = "emit"
         /\ result.value = << call.data.downloaded_bytes[1], KnownTotal(call.data)[1] >>
    ELSE result.kind = "none"

\* ===================================================== to_timestamp, alone
\* A decimal digit as a character.
DigitChar(d) ==
  CASE d = 0 -> "0" [] d = 1 -> "1" [] d = 2 -> "2" [] d = 3 -> "3"
    [] d = 4 -> "4" [] d = 5 -> "5" [] d = 6 -> "6" [] d = 7 -> "7"
    [] d = 8 -> "8" [] d = 9 -> "9"

\* str(n) of a natural number, as its characters.
RECURSIVE Decimal(_)
Decimal(n) ==
  IF n < 10 THEN << DigitChar(n) >>
  ELSE Append(Decimal(n \div 10), DigitChar(n % 10))

\* f"{n:0{width}d}": zeros on the left up to width, never a cut.
RECURSIVE ZeroPad(_, _)
ZeroPad(chars, width) ==
  IF Len(chars) >= width THEN chars ELSE ZeroPad(<< "0" >> \o chars, width)

\* to_timestamp with the hours left in the minutes (line 227 lost).
ToTimestamp_HoursInMinutes(ms0, ms_separator) ==
  LET hr == ms0 \div (1000 * 60 * 60)
      min == ms0 \div (1000 * 60)
      ms2 == ms0 - min * (1000 * 60)
      sec == ms2 \div 1000
      ms3 == ms2 - sec * 1000
  IN ZeroPad(Decimal(hr), 2) \o << ":" >> \o ZeroPad(Decimal(min), 2) \o << ":" >>
       \o ZeroPad(Decimal(sec), 2) \o << ms_separator >> \o ZeroPad(Decimal(ms3), 3)

\* Lines 225-232, for ms >= 0 (int() of a quotient of non-negative numbers
\* is the integer quotient).
ToTimestamp(ms0, ms_separator) ==
  LET hr == ms0 \div (1000 * 60 * 60)
      ms1 == ms0 - hr * (1000 * 60 * 60)
      min == ms1 \div (1000 * 60)
      ms2 == ms1 - min * (1000 * 60)
      sec == ms2 \div 1000
      ms3 == ms2 - sec * 1000
  IN ZeroPad(Decimal(hr), 2) \o << ":" >> \o ZeroPad(Decimal(min), 2) \o << ":" >>
       \o ZeroPad(Decimal(sec), 2) \o << ms_separator >> \o ZeroPad(Decimal(ms3), 3)

\* Millisecond offsets to format: every field at its least, at its greatest
\* and in between, the hours also past two digits.
TimestampInputs ==
  { h * (1000 * 60 * 60) + m * (1000 * 60) + sec * 1000 + f :
      h \in {0, 1, 99, 100}, m \in {0, 2, 59}, sec \in {0, 3, 59}, f \in {0, 45, 999} }

InitTimestamp ==
  /\ call \in [fn : {"to_timestamp"}, ms : TimestampInputs, ms_separator : {".", ","}]
  /\ result = None
  /\ RunIdle
  /\ DbIdle
  /\ PairIdle

\* to_timestamp(call.ms, call.ms_separator) is called.
TimestampCall ==
  /\ call.fn = "to_timestamp"
  /\ result = None
  /\ result' = ToTimestamp(call.ms, call.ms_separator)
  /\ UNCHANGED << call, runvars, dbvars, pairvars >>

NextTimestamp == TimestampCall

SpecTimestamp == InitTimestamp /\ [][NextTimestamp]_vars

\* The number a character sequence of decimal digits writes, -1 if it is
\* not one.
DigitValue(c) ==
  CASE c = "0" -> 0 [] c = "1" -> 1 [] c = "2" -> 2 [] c = "3" -> 3
    [] c = "4" -> 4 [] c = "5" -> 5 [] c = "6" -> 6 [] c = "7" -> 7
    [] c = "8" -> 8 [] c = "9" -> 9 [] OTHER -> -1

RECURSIVE ParseNat(_)
ParseNat(chars) ==
  IF chars = <<>> THEN -1
  ELSE LET d == DigitValue(chars[Len(chars)])
       IN IF d < 0 THEN -1
          ELSE IF Len(chars) = 1 THEN d
          ELSE LET rest == ParseNat(SubSeq(chars, 1, Len(chars) - 1))
               IN IF rest < 0 THEN -1 ELSE rest * 10 + d

\* chars is HH:MM:SS{sep}mmm, zero-padded, and writes ms.
IsTimestampOf(chars, ms, sep) ==
  /\ Len(chars) = 12
  /\ chars[3] = ":" /\ chars[6] = ":" /\ chars[9] = sep
  /\ LET hh == ParseNat(SubSeq(chars, 1, 2))
         mm == ParseNat(SubSeq(chars, 4, 5))
         ss == ParseNat(SubSeq(chars, 7, 8))
         mmm == ParseNat(SubSeq(chars, 10, 12))
     IN /\ hh = ms \div 3600000
        /\ mm \in 0 .. 59 /\ ss \in 0 .. 59 /\ mmm \in 0 .. 999
        /\ hh * 3600000 + mm * 60000 + ss * 1000 + mmm = ms

\* "01:02:03.045" and "00:00:00,000"
Example1Timestamp == << "0", "1", ":", "0", "2", ":", "0", "3", ".", "0", "4", "5" >>
Example0Timestamp == << "0", "0", ":", "0", "0", ":", "0", "0", ",", "0", "0", "0" >>

\* C18: for 0 <= ms < 100 hours to_timestamp(ms, sep) is HH:MM:SS{sep}mmm,
\* zero-padded, HH = ms div 3600000, MM and SS in 0..59, mmm in 0..999, the
\* fields adding up to ms; to_timestamp(3723045, ".") = "01:02:03.045" and
\* to_timestamp(0, ",") = "00:00:00,000".
C18_TimestampFormat ==
  (call # None /\ call.fn = "to_timestamp" /\ result # None) =>
    /\ call.ms < 100 * 3600000 => IsTimestampOf(result, call.ms, call.ms_separator)
    /\ (call.ms = 3723045 /\ call.ms_separator = ".") => result = Example1Timestamp
    /\ (call.ms = 0 /\ call.ms_separator = ",") => result = Example0Timestamp

\* to_timestamp(3723045, ".") was called.
C18_Witness ==
  /\ call # None /\ call.fn = "to_timestamp"
  /\ call.ms = 3723045 /\ call.ms_separator = "."
  /\ result = Example1Timestamp

\* ===================================================== write_output, alone
\* Longest segment list written.
MaxWriterSegs == 2

\* Segments a caller may pass: the gaps between an end and a later start
\* are 500, 1999, 2000 and 2500 ms (and negative ones).
WriterTimes ==
  { <<0, 1000>>, <<1500, 2000>>, <<2999, 3200>>, <<3000, 3500>>, <<3500, 4000>> }
WriterTexts == { << "A" >>, << "B" >>, << " ", "c", "\n" >>, <<>> }
WriterSegments ==
  { [start |-> p[1], end |-> p[2], text |-> t] : p \in WriterTimes, t \in WriterTexts }
WriterSegmentLists == SeqsUpTo(WriterSegments, MaxWriterSegs)

\* Lines 192-200: the loop of the TXT branch, from segment i on.
RECURSIVE TxtLoop(_, _, _, _)
TxtLoop(segs, i, combined_text, previous_end_time) ==
  IF i > Len(segs) THEN combined_text
  ELSE LET current_text == StripText(segs[i].text)
           broken == IF /\ previous_end_time # None
                        /\ segs[i].start - previous_end_time[1] >= 2000
                     THEN combined_text \o << "\n", "\n" >>
                     ELSE combined_text
       IN TxtLoop(segs, i + 1, broken \o current_text \o << " " >>, Some(segs[i].end))

\* Lines 191-202: what the TXT branch writes.
WriteTxt(segs) == StripText(TxtLoop(segs, 1, <<>>, None))

Arrow == << " ", "-", "-", ">", " " >>

\* Lines 206-211: the cues of the VTT branch, from segment i on.
RECURSIVE VttLoop(_, _, _)
VttLoop(segs, i, written) ==
  IF i > Len(segs) THEN written
  ELSE VttLoop(segs, i + 1,
         written \o ToTimestamp(segs[i].start, ".") \o Arrow
                 \o ToTimestamp(segs[i].end, ".") \o << "\n" >>
                 \o StripText(segs[i].text) \o << "\n", "\n" >>)

VttHeader == << "W", "E", "B", "V", "T", "T", "\n", "\n" >>

\* The VTT branch writing its header only when there is a segment.
WriteVtt_NoHeaderWhenEmpty(segs) ==
  IF segs = <<>> THEN <<>> ELSE VttLoop(segs, 1, VttHeader)

\* Lines 204-211: what the VTT branch writes.
WriteVtt(segs) == VttLoop(segs, 1, VttHeader)

\* Lines 214-220: the blocks of the SRT branch, from segment i on (i from 1;
\* enumerate counts from 0 and the block's index is that count plus 1).
RECURSIVE SrtLoop(_, _, _)
SrtLoop(segs, i, written) ==
  IF i > Len(segs) THEN written
  ELSE SrtLoop(segs, i + 1,
         written \o Decimal((i - 1) + 1) \o << "\n" >>
                 \o ToTimestamp(segs[i].start, ",") \o Arrow
                 \o ToTimestamp(segs[i].end, ",") \o << "\n" >>
                 \o StripText(segs[i].text) \o << "\n", "\n" >>)

\* The SRT branch numbering its blocks from 0 (the + 1 of line 216 lost).
RECURSIVE SrtLoopZeroBased(_, _, _)
SrtLoopZeroBased(segs, i, written) ==
  IF i > Len(segs) THEN written
  ELSE SrtLoopZeroBased(segs, i + 1,
         written \o Decimal(i - 1) \o << "\n" >>
                 \o ToTimestamp(segs[i].start, ",") \o Arrow
                 \o ToTimestamp(segs[i].end, ",") \o << "\n" >>
                 \o StripText(segs[i].text) \o << "\n", "\n" >>)

WriteSrt_ZeroBased(segs) == SrtLoopZeroBased(segs, 1, <<>>)

\* Lines 213-220: what the SRT branch writes.
WriteSrt(segs) == SrtLoop(segs, 1, <<>>)

InitWriter ==
  /\ call \in [fn : {"write_output"}, segments : WriterSegmentLists,
               output_format : OutputFormats]
  /\ result = None
  /\ RunIdle
  /\ DbIdle
  /\ PairIdle

\* write_output(path, call.segments, TXT) writes its file.
WriteTxtCall ==
  /\ call.fn = "write_output" /\ call.output_format = "TXT"
  /\ result = None
  /\ result' = [content |-> WriteTxt(call.segments)]
  /\ UNCHANGED << call, runvars, dbvars, pairvars >>

\* write_output(path, call.segments, VTT) writes its file.
WriteVttCall ==
  /\ call.fn = "write_output" /\ call.output_format = "VTT"
  /\ result = None
  /\ result' = [content |-> WriteVtt(call.segments)]
  /\ UNCHANGED << call, runvars, dbvars, pairvars >>

\* write_output(path, call.segments, SRT) writes its file.
WriteSrtCall ==
  /\ call.fn = "write_output" /\ call.output_format = "SRT"
  /\ result = None
  /\ result' = [content |-> WriteSrt(call.segments)]
  /\ UNCHANGED << call, runvars, dbvars, pairvars >>

NextWriter ==
  \/ WriteTxtCall
  \/ WriteVttCall
  \/ WriteSrtCall

SpecWriter == InitWriter /\ [][NextWriter]_vars

\* write_output was called with this format and has written.
Wrote(format) ==
  /\ call # None /\ call.fn = "write_output" /\ call.output_format = format
  /\ result # None

\* The separator the claim puts between segment i - 1 and segment i.
TxtSeparator(segs, i) ==
  IF segs[i].start - segs[i - 1].end >= 2000 THEN << "\n", "\n" >> ELSE << " " >>

\* The texts of segs up to segment n, joined by the claim's separators.
RECURSIVE TxtJoined(_, _)
TxtJoined(segs, n) ==
  IF n = 0 THEN <<>>
  ELSE IF n = 1 THEN StripText(segs[1].text)
  ELSE TxtJoined(segs, n - 1) \o TxtSeparator(segs, n) \o StripText(segs[n].text)

\* C15: the TXT output is the segment texts in order, two consecutive ones
\* separated by exactly "\n\n" when next.start - previous.end >= 2000 and by
\* exactly one space otherwise, without trailing whitespace (stated for texts
\* that are not empty once stripped).
C15_TxtSeparators ==
  (Wrote("TXT") /\ \A i \in DOMAIN call.segments : StripText(call.segments[i].text) # <<>>)
    => result.content = TxtJoined(call.segments, Len(call.segments))

\* The length of a cue: two timestamps, the arrow, the text and three line ends.
CueLen(seg) == 12 + 5 + 12 + 1 + Len(StripText(seg.text)) + 2

\* content holds, from offset off on, the cue of seg with separator sep.
IsCueAt(content, off, seg, sep) ==
  LET t == StripText(seg.text)
  IN /\ off + CueLen(seg) <= Len(content)
     /\ IsTimestampOf(SubSeq(content, off + 1, off + 12), seg.start, sep)
     /\ SubSeq(content, off + 13, off + 17) = << " ", "-", "-", ">", " " >>
     /\ IsTimestampOf(SubSeq(content, off + 18, off + 29), seg.end, sep)
     /\ content[off + 30] = "\n"
     /\ SubSeq(content, off + 31, off + 30 + Len(t)) = t
     /\ content[off + 31 + Len(t)] = "\n"
     /\ content[off + 32 + Len(t)] = "\n"

\* The characters of the decimal numeral of k, 1 <= k < 100.
IndexLen(k) == IF k < 10 THEN 1 ELSE 2

\* Where SRT block k starts: after the blocks before it.
RECURSIVE SrtOffset(_, _)
SrtOffset(segs, k) ==
  IF k = 1 THEN 0
  ELSE SrtOffset(segs, k - 1) + IndexLen(k - 1) + 1 + CueLen(segs[k - 1])

\* C16: the SRT output of N segments is exactly N blocks in segment order,
\* block k being the index k, a line end, the timestamp line with ',' before
\* the milliseconds, the text and a blank line.
C16_SrtBlocks ==
  Wrote("SRT") =>
    LET segs == call.segments
        content == result.content
    IN /\ Len(content) = SrtOffset(segs, Len(segs) + 1)
       /\ \A k \in DOMAIN segs :
            LET off == SrtOffset(segs, k)
            IN /\ ParseNat(SubSeq(content, off + 1, off + IndexLen(k))) = k
               /\ content[off + IndexLen(k) + 1] = "\n"
               /\ IsCueAt(content, off + IndexLen(k) + 1, segs[k], ",")

\* An SRT file of two segments was written.
C16_Witness ==
  /\ Wrote("SRT")
  /\ Len(call.segments) = 2
  /\ call.segments[1] # call.segments[2]

\* Where VTT cue k starts: after the header and the cues before it.
RECURSIVE VttOffset(_, _)
VttOffset(segs, k) ==
  IF k = 1 THEN 8 ELSE VttOffset(segs, k - 1) + CueLen(segs[k - 1])

\* C17: the VTT output begins with "WEBVTT\n\n" whatever the segments, none
\* included, and goes on with exactly one cue per segment, in order.
C17_VttHeaderAndCues ==
  Wrote("VTT") =>
    LET segs == call.segments
        content == result.content
    IN /\ Len(content) >= 8
       /\ SubSeq(content, 1, 8) = << "W", "E", "B", "V", "T", "T", "\n", "\n" >>
       /\ Len(content) = VttOffset(segs, Len(segs) + 1)
       /\ \A k \in DOMAIN segs : IsCueAt(content, VttOffset(segs, k), segs[k], ".")

\* A VTT file of no segment was written: the header alone.
C17_Witness ==
  /\ Wrote("VTT")
  /\ call.segments = <<>>
  /\ Len(result.content) = 8

\* ========================================================= database helpers
\* Most tasks in the legacy cache file.
MaxTasks == 2
\* Most application starts (each runs the migration once).
MaxRuns == 2

Uids == {"u1", "u2"}

\* A task's segments, url and file go with its identifier.
TaskSegments(uid) ==
  IF uid = "u1"
  THEN << [start |-> 0, end |-> 1000, text |-> "x", translation |-> ""],
          [start |-> 1000, end |-> 2000, text |-> "y", translation |-> ""] >>
  ELSE << [start |-> 0, end |-> 500, text |-> "z", translation |-> ""] >>
TaskUrl(uid) == IF uid = "u2" THEN Some(Url) ELSE None
TaskFilePath(uid) == IF uid = "u1" THEN InputPath ELSE None

\* Status and completed_at of a stored task.
TaskStates ==
  { <<"queued", None>>, <<"in_progress", None>>, <<"completed", Some("t1")>>,
    <<"failed", Some("t1")>>, <<"canceled", Some("t1")>>, <<"canceled", None>> }

\* The tasks a cache file may hold.
TaskValues ==
  { [uid |-> "u1", status |-> st[1], completed_at |-> st[2]] :
      st \in { <<"queued", None>>, <<"in_progress", None>>, <<"completed", Some("t1")>> } }
  \cup
  { [uid |-> "u2", status |-> st[1], completed_at |-> st[2]] :
      st \in { <<"queued", None>>, <<"failed", Some("t1")>>, <<"canceled", Some("t1")>> } }

TaskLists == SeqsUpTo(TaskValues, MaxTasks)

\* cache.tasks_list_file_path, and cache.get_task_path(task_id).
CacheList == << "tasks", "" >>
TaskFile(uid) == << "task", uid >>

\* Lines 17-20: the title of a migrated task.
MigratedTitle(task) ==
  IF TaskUrl(task.uid) # None THEN TaskUrl(task.uid)[1]
  ELSE IF TaskFilePath(task.uid) # None
       THEN TaskFilePath(task.uid)[2] \o TaskFilePath(task.uid)[3]
       ELSE "Unknown"

\* Lines 28-56: the row of a task.
TranscriptionRow(task) ==
  [id |-> task.uid, title |-> MigratedTitle(task), status |-> task.status,
   time_ended |-> task.completed_at]

\* Lines 68-74: the row of a segment.
SegmentRow(segment, transcription_id) ==
  [end_time |-> segment.end, start_time |-> segment.start, text |-> segment.text,
   translation |-> segment.translation, transcription_id |-> transcription_id]

\* The segment rows of a task, in order.
SegmentRows(uid) ==
  [k \in DOMAIN TaskSegments(uid) |-> SegmentRow(TaskSegments(uid)[k], uid)]

\* Lines 22-27: INSERT ... ON CONFLICT(id) DO NOTHING; the table after it
\* and cursor.rowcount.
InsertTranscription(table, row) ==
  IF \E i \in DOMAIN table : table[i].id = row.id
  THEN [table |-> table, rowcount |-> 0]
  ELSE [table |-> Append(table, row), rowcount |-> 1]

\* The tables a database may hold when the application starts.
InitialDbs ==
  { [transcription |-> <<>>, transcription_segment |-> <<>>] }
  \cup
  { [transcription |->
       << [id |-> "u1", title |-> "a.mp3", status |-> st[1], time_ended |-> st[2]] >>,
     transcription_segment |-> SegmentRows("u1")] : st \in TaskStates }

\* The tasks are those the cache file holds: without the file there are none.
InitDb ==
  /\ tasks \in TaskLists
  /\ cache_files \in
       { {CacheList} \cup F : F \in SUBSET { TaskFile(tasks[i].uid) : i \in DOMAIN tasks } }
       \cup (IF tasks = <<>> THEN { {} } ELSE {})
  /\ disk \in InitialDbs
  /\ conn = disk
  /\ mig_pc = "start"
  /\ mig_i = 0
  /\ before = None
  /\ runs = 1
  /\ PureIdle
  /\ RunIdle
  /\ PairIdle

\* Lines 11-14: the migration starts; without the cache file it does nothing.
MigrateStart ==
  /\ mig_pc = "start"
  /\ IF CacheList \in cache_files
     THEN mig_pc' = (IF tasks = <<>> THEN "remove_cache" ELSE "insert") /\ mig_i' = 1
     ELSE mig_pc' = "done" /\ mig_i' = 0
  /\ UNCHANGED << tasks, conn, disk, cache_files, before, runs, runvars, purevars, pairvars >>

\* One turn of the loop of lines 15-75 with the test of line 60 lost: the
\* segment rows are inserted whatever the INSERT did.
InsertTask_AlwaysSegments ==
  /\ mig_pc = "insert"
  /\ LET task == tasks[mig_i]
         ins == InsertTranscription(conn.transcription, TranscriptionRow(task))
     IN conn' = [transcription |-> ins.table,
                 transcription_segment |->
                   conn.transcription_segment \o SegmentRows(task.uid)]
  /\ mig_i' = mig_i + 1
  /\ mig_pc' = IF mig_i + 1 > Len(tasks) THEN "remove_cache" ELSE "insert"
  /\ before' = None
  /\ UNCHANGED << tasks, disk, cache_files, runs, runvars, purevars, pairvars >>

\* Lines 15-75: one turn of the loop: the task's row is inserted unless its
\* id is there, and its segment rows only when the row was inserted.
InsertTask ==
  /\ mig_pc = "insert"
  /\ LET task == tasks[mig_i]
         ins == InsertTranscription(conn.transcription, TranscriptionRow(task))
     IN conn' = [transcription |-> ins.table,
                 transcription_segment |->
                   IF ins.rowcount > 0
                   THEN conn.transcription_segment \o SegmentRows(task.uid)
                   ELSE conn.transcription_segment]
  /\ mig_i' = mig_i + 1
  /\ mig_pc' = IF mig_i + 1 > Len(tasks) THEN "remove_cache" ELSE "insert"
  /\ before' = None
  /\ UNCHANGED << tasks, disk, cache_files, runs, runvars, purevars, pairvars >>

\* Line 77: the cache file is removed.
RemoveCacheOk ==
  /\ mig_pc = "remove_cache"
  /\ cache_files' = cache_files \ {CacheList}
  /\ mig_pc' = "remove_task_files"
  /\ UNCHANGED << tasks, mig_i, conn, disk, before, runs, runvars, purevars, pairvars >>

\* Line 77 raises OSError, which leaves the function: nothing is committed.
RemoveCacheFail ==
  /\ mig_pc = "remove_cache"
  /\ mig_pc' = "raised"
  /\ UNCHANGED << tasks, mig_i, conn, disk, cache_files, before, runs, runvars, purevars, pairvars >>

\* Lines 78-81: the task files that exist are removed.
RemoveTaskFilesOk ==
  /\ mig_pc = "remove_task_files"
  /\ cache_files' = cache_files \ { TaskFile(tasks[i].uid) : i \in DOMAIN tasks }
  /\ mig_pc' = "commit"
  /\ UNCHANGED << tasks, mig_i, conn, disk, before, runs, runvars, purevars, pairvars >>

\* Line 81 raises OSError on some task file: the files before it are gone,
\* nothing is committed.
RemoveTaskFilesFail ==
  /\ mig_pc = "remove_task_files"
  /\ \E i \in DOMAIN tasks :
       /\ TaskFile(tasks[i].uid) \in cache_files
       /\ cache_files' = cache_files \ { TaskFile(tasks[j].uid) : j \in 1 .. (i - 1) }
  /\ mig_pc' = "raised"
  /\ UNCHANGED << tasks, mig_i, conn, disk, before, runs, runvars, purevars, pairvars >>

\* Line 83: conn.commit().
Commit ==
  /\ mig_pc = "commit"
  /\ disk' = conn
  /\ mig_pc' = "done"
  /\ UNCHANGED << tasks, mig_i, conn, cache_files, before, runs, runvars, purevars, pairvars >>

\* The process dies during the migration: the open transaction is lost.
Crash ==
  /\ mig_pc \in {"insert", "remove_cache", "remove_task_files", "commit"}
  /\ conn' = disk
  /\ mig_pc' = "crashed"
  /\ before' = None
  /\ UNCHANGED << tasks, mig_i, disk, cache_files, runs, runvars, purevars, pairvars >>

\* The application starts again: a new connection, and the migration anew.
Restart ==
  /\ mig_pc \in {"done", "raised", "crashed"}
  /\ runs < MaxRuns
  /\ runs' = runs + 1
  /\ conn' = disk
  /\ mig_pc' = "start"
  /\ mig_i' = 0
  /\ before' = None
  /\ UNCHANGED << tasks, disk, cache_files, runvars, purevars, pairvars >>

\* The UPDATE with the test for 'queued' lost.
CanceledRow_OnlyInProgress(row) ==
  IF row.status = "in_progress"
  THEN [row EXCEPT !.status = "canceled", !.time_ended = Some("now")]
  ELSE row

\* The UPDATE of lines 96-103 on one row, 'now' being datetime.now().
CanceledRow(row) ==
  IF row.status = "in_progress" \/ row.status = "queued"
  THEN [row EXCEPT !.status = "canceled", !.time_ended = Some("now")]
  ELSE row

\* Lines 94-104: mark_in_progress_and_queued_transcriptions_as_canceled,
\* called when the migration is not running; its commit also commits what
\* the connection's transaction holds.
MarkCanceled ==
  /\ mig_pc \in {"start", "done", "raised"}
  /\ before' = Some(conn.transcription)
  /\ conn' = [conn EXCEPT !.transcription =
                [i \in DOMAIN conn.transcription |-> CanceledRow(conn.transcription[i])]]
  /\ disk' = conn'
  /\ UNCHANGED << tasks, mig_pc, mig_i, cache_files, runs, runvars, purevars, pairvars >>

NextDb ==
  \/ MigrateStart
  \/ InsertTask
  \/ RemoveCacheOk
  \/ RemoveCacheFail
  \/ RemoveTaskFilesOk
  \/ RemoveTaskFilesFail
  \/ Commit
  \/ Crash
  \/ Restart
  \/ MarkCanceled

SpecDb == InitDb /\ [][NextDb]_vars

\* ------------------------------------------------------- claims on the db
\* The number of transcription rows with an id.
RowsWithId(table, id) == Cardinality({ i \in DOMAIN table : table[i].id = id })

\* The segment rows of a transcription, in table order.
SegmentRowsOf(table, id) == SelectSeq(table, LAMBDA r : r.transcription_id = id)

\* The tasks of the batch that the running (or finished) migration has
\* upserted on the connection.
Upserted ==
  IF mig_pc \in {"start", "crashed"} THEN {}
  ELSE { i \in DOMAIN tasks : i < mig_i }

\* C19: however often a task identifier is upserted (twice in one batch
\* included, and again on a later start), the database holds exactly one
\* transcription row for it and its segment rows once: an identifier has
\* its segment rows exactly when it has its row, and never twice.
C19_UpsertIdempotent ==
  /\ \A i \in Upserted : RowsWithId(conn.transcription, tasks[i].uid) = 1
  /\ \A db \in {conn, disk} : \A uid \in Uids :
       /\ RowsWithId(db.transcription, uid) <= 1
       /\ SegmentRowsOf(db.transcription_segment, uid) =
            IF RowsWithId(db.transcription, uid) = 1 THEN SegmentRows(uid) ELSE <<>>

\* C19 witness: the second start has migrated (and committed) a batch that
\* names u1 twice; u1 has one row and its two segment rows.
C19_Witness ==
  /\ runs = 2
  /\ mig_pc = "done"
  /\ Len(tasks) = 2
  /\ tasks[1].uid = "u1"
  /\ tasks[2].uid = "u1"
  /\ mig_i = 3
  /\ RowsWithId(disk.transcription, "u1") = 1
  /\ Len(disk.transcription_segment) = 2

ActiveStatuses == {"in_progress", "queued"}

\* C20: after mark_in_progress_and_queued_transcriptions_as_canceled, the
\* table has the same rows; those that were in_progress or queued are
\* canceled with an end timestamp, none is in_progress or queued, and the
\* others keep their status and end timestamp.
C20_MarkCanceledPost ==
  before # None =>
    LET old == before[1]
        new == conn.transcription
    IN /\ Len(new) = Len(old)
       /\ \A i \in DOMAIN old :
            /\ new[i].id = old[i].id
            /\ new[i].status \notin ActiveStatuses
            /\ old[i].status \in ActiveStatuses =>
                 new[i].status = "canceled" /\ new[i].time_ended # None
            /\ old[i].status \notin ActiveStatuses =>
                 new[i].status = old[i].status /\ new[i].time_ended = old[i].time_ended
       /\ disk.transcription = new

\* C20 witness: the operation ran on a table holding a queued row and a
\* row that had ended.
C20_Witness ==
  /\ before # None
  /\ \E i, j \in DOMAIN before[1] :
       /\ before[1][i].status = "queued"
       /\ before[1][j].status \in {"completed", "failed", "canceled"}
       /\ before[1][j].time_ended # None

\* The rows of a task are committed: its transcription row and its segment
\* rows are in the tables on disk.
Committed(uid) ==
  /\ RowsWithId(disk.transcription, uid) = 1
  /\ SegmentRowsOf(disk.transcription_segment, uid) = SegmentRows(uid)

\* C24: the legacy cache file is gone only when the transcription and
\* segment rows of every cached task are committed, whatever step failed
\* or crashed.
C24_CacheRemovedAfterCommit ==
  CacheList \notin cache_files => \A i \in DOMAIN tasks : Committed(tasks[i].uid)

\* ================================================= two concurrent URL imports
\* The two runs.
Workers == {1, 2}

\* Names tempfile.mktemp() may return to either run.
PairTempNames == TempNames \cup { << TempDir, "t2", "" >> }

\* The paths that exist.
PairPaths == { f.path : f \in p_files }

\* A file is written (created or overwritten) with the audio of run `by`.
WriteFile(files, path, by) ==
  { f \in files : f.path # path } \cup { [path |-> path, by |-> by] }

\* The run whose audio the file at a path holds, or the reader's own when
\* no file is there.
AudioAt(path, reader) ==
  IF path \in PairPaths THEN (CHOOSE f \in p_files : f.path = path).by ELSE reader

InitPair ==
  /\ p_pc = [w \in Workers |-> "start"]
  /\ p_temp = [w \in Workers |-> None]
  /\ p_files = {}
  /\ RunIdle
  /\ PureIdle
  /\ DbIdle

\* Every step of a run of the pair leaves the rest alone.
PairStep(w, p) ==
  /\ p_pc' = [p_pc EXCEPT ![w] = p]
  /\ UNCHANGED << runvars, purevars, dbvars >>

\* Lines 36-64: mktemp() returns a name that does not exist and creates
\* nothing; the title fetch follows and touches no file.
PairMktemp(w) ==
  /\ p_pc[w] = "start"
  /\ \E t \in PairTempNames :
       /\ t \notin PairPaths
       /\ p_temp' = [p_temp EXCEPT ![w] = t]
  /\ PairStep(w, "download")
  /\ UNCHANGED p_files

\* Line 79 returns: the audio is written at temp_output_path (or under
\* another name the download service chose).
PairDownloadOk(w) ==
  /\ p_pc[w] = "download"
  /\ \E at_temp \in BOOLEAN :
       p_files' = IF at_temp THEN WriteFile(p_files, p_temp[w], w) ELSE p_files
  /\ PairStep(w, "decode")
  /\ UNCHANGED p_temp

\* Lines 80-84: download() raises; run returns.
PairDownloadFail(w) ==
  /\ p_pc[w] = "download"
  /\ PairStep(w, "done")
  /\ UNCHANGED << p_temp, p_files >>

\* Lines 86-110: the decoder reads temp_output_path and writes the WAV.
PairDecodeOk(w) ==
  /\ p_pc[w] = "decode"
  /\ \E rc \in ExitCodes :
       p_files' = IF rc = 0
                  THEN WriteFile(p_files, WavFile(p_temp[w]), AudioAt(p_temp[w], w))
                  ELSE p_files
  /\ PairStep(w, "transcribe")
  /\ UNCHANGED p_temp

\* Lines 106-108: the decoder wrote to its error stream; the exception
\* leaves run.
PairDecodeFail(w) ==
  /\ p_pc[w] = "decode"
  /\ PairStep(w, "done")
  /\ UNCHANGED << p_temp, p_files >>

\* Lines 113-138 return: the WAV is transcribed and the outputs are written
\* (outside the temporary directory); the cleanup of line 149 is next.
PairTranscribeOk(w) ==
  /\ p_pc[w] = "transcribe"
  /\ PairStep(w, "remove_wav")
  /\ UNCHANGED << p_temp, p_files >>

\* Lines 115-118 and 136-138: transcribe() or write_output raises; run ends
\* without cleanup.
PairTranscribeFail(w) ==
  /\ p_pc[w] = "transcribe"
  /\ PairStep(w, "done")
  /\ UNCHANGED << p_temp, p_files >>

\* Lines 151-153: the WAV is removed; the raw download is next when it exists.
PairRemoveWavOk(w) ==
  /\ p_pc[w] = "remove_wav"
  /\ WavFile(p_temp[w]) \in PairPaths
  /\ p_files' = { f \in p_files : f.path # WavFile(p_temp[w]) }
  /\ PairStep(w, IF p_temp[w] \in PairPaths THEN "remove_raw" ELSE "done")
  /\ UNCHANGED p_temp

\* Lines 151, 155-156: os.remove raises OSError (the WAV is not there, or
\* cannot be removed), which is logged.
PairRemoveWavFail(w) ==
  /\ p_pc[w] = "remove_wav"
  /\ PairStep(w, "done")
  /\ UNCHANGED << p_temp, p_files >>

\* Line 154 and lines 155-156: the raw download is removed unless the
\* removal raises OSError (it may be gone since the test of line 153).
PairRemoveRaw(w) ==
  /\ p_pc[w] = "remove_raw"
  /\ \E ok \in BOOLEAN :
       p_files' = IF ok THEN { f \in p_files : f.path # p_temp[w] } ELSE p_files
  /\ PairStep(w, "done")
  /\ UNCHANGED p_temp

NextPair ==
  \/ \E w \in Workers : PairMktemp(w)
  \/ \E w \in Workers : PairDownloadOk(w)
  \/ \E w \in Workers : PairDownloadFail(w)
  \/ \E w \in Workers : PairDecodeOk(w)
  \/ \E w \in Workers : PairDecodeFail(w)
  \/ \E w \in Workers : PairTranscribeOk(w)
  \/ \E w \in Workers : PairTranscribeFail(w)
  \/ \E w \in Workers : PairRemoveWavOk(w)
  \/ \E w \in Workers : PairRemoveWavFail(w)
  \/ \E w \in Workers : PairRemoveRaw(w)

SpecPair == InitPair /\ [][NextPair]_vars

\* ------------------------------------------------------ claims on the pair
\* A run holds a temporary name and has not ended.
InFlight(w) == p_pc[w] \notin {"start", "done"}

\* The temporary paths of a run: the download and the decoded WAV.
TempPathsOf(w) == { p_temp[w], << p_temp[w][1], p_temp[w][2], ".wav" >> }

\* C21: two URL_IMPORT runs in flight at the same time never hold the same
\* temporary download path or WAV path, and no file at a path of one of
\* them holds the audio of the other.
C21_TempPathsDisjoint ==
  \A a, b \in Workers :
    (a # b /\ InFlight(a) /\ InFlight(b)) =>
      /\ TempPathsOf(a) \cap TempPathsOf(b) = {}
      /\ \A f \in p_files : f.path \in TempPathsOf(a) => f.by # b

====
